---- MODULE Spec2Model ----
(***************************************************************************)
(* Model of server.js: the interview session store, the four interview     *)
(* routes as asynchronous handlers that suspend at their one gateway call, *)
(* the stage machine and the question extractor (Spec); the extractor      *)
(* applied to every short text (SpecExtract); the routes /suggest and      *)
(* /career-ai with their JSON extraction (SpecAdvice).                     *)
(*                                                                         *)
(* A handler runs without interruption from the arrival of its request to  *)
(* its `await callGroq(...)`, and again from the return of that call to    *)
(* its response (single-threaded event loop).  Each of these two runs is   *)
(* one action.  Between them any other handler may run.                    *)
(*                                                                         *)
(* The model covers one lifetime of the server process.                    *)
(***************************************************************************)
EXTENDS Integers, Sequences, FiniteSets, Bags, TLC

(***************************************************************************)
(* Bounds of the model.                                                    *)
(***************************************************************************)
\* number of session ids uuidv4() can hand out
MaxSessions == 2
\* number of handlers that can be suspended at their gateway call at once
MaxInFlight == 2
\* number of gateway calls the server makes in one run
MaxCalls == 7
\* number of gateway calls in one run that fail or return a completion other
\* than the usual one
MaxOdd == 1
\* length of the texts extractOnlyQuestion is applied to on its own
MaxLen == 5

(***************************************************************************)
(* Text.  A string is a sequence of characters; a character is a           *)
(* one-element name.  LDQ and RDQ stand for the curly quotes U+201C and    *)
(* U+201D, DQ for the straight double quote, NL for the line feed.         *)
(***************************************************************************)
DQ == "dq"
LDQ == "ldq"
RDQ == "rdq"
NL == "nl"
SP == " "
QM == "?"

\* what String.prototype.trim removes (of the characters of the model)
IsSpace(c) == c \in {SP, NL}

\* what `.` does not match in a regular expression without the s flag
IsLineTerminator(c) == c = NL

RECURSIVE trimStart(_)
trimStart(t) ==
  IF t # <<>> /\ IsSpace(Head(t)) THEN trimStart(Tail(t)) ELSE t

RECURSIVE trimEnd(_)
trimEnd(t) ==
  IF t # <<>> /\ IsSpace(t[Len(t)]) THEN trimEnd(SubSeq(t, 1, Len(t) - 1)) ELSE t

trim(t) == trimEnd(trimStart(t))

\* text.split("\n")[0]
firstLine(t) ==
  IF \E i \in 1..Len(t) : t[i] = NL
    THEN LET i == CHOOSE k \in 1..Len(t) :
                    t[k] = NL /\ \A m \in 1..(k - 1) : t[m] # NL
         IN  SubSeq(t, 1, i - 1)
    ELSE t

\* text.match(/["“](.+?\?)["”]/): the pairs <<i, j>> such that the
\* pattern matches with the opening quote at i and the group ending at j
quotedMatches(t) ==
  {p \in (1..Len(t)) \X (1..Len(t)) :
     /\ t[p[1]] \in {DQ, LDQ}
     /\ p[2] >= p[1] + 2
     /\ t[p[2]] = QM
     /\ \A k \in (p[1] + 1)..(p[2] - 1) : ~IsLineTerminator(t[k])
     /\ p[2] + 1 <= Len(t)
     /\ t[p[2] + 1] \in {DQ, RDQ}}

\* the match the engine reports: leftmost start, then (lazy) shortest group
quotedGroup(t) ==
  LET ms == quotedMatches(t)
      p  == CHOOSE q \in ms :
              \A r \in ms : q[1] < r[1] \/ (q[1] = r[1] /\ q[2] <= r[2])
  IN  SubSeq(t, p[1] + 1, p[2])

\* text.match(/[^?]*\?/)[0]: from the start of the text to the first '?'
upToFirstQM(t) ==
  LET j == CHOOSE k \in 1..Len(t) : t[k] = QM /\ \A m \in 1..(k - 1) : t[m] # QM
  IN  SubSeq(t, 1, j)

extractOnlyQuestion(text) ==
  IF text = <<>> THEN <<>>
  ELSE IF quotedMatches(text) # {} THEN trim(quotedGroup(text))
  ELSE IF \E k \in 1..Len(text) : text[k] = QM THEN trim(upToFirstQM(text))
  ELSE trim(firstLine(text))


(***************************************************************************)
(* The stage machine.                                                      *)
(***************************************************************************)
Null == "null"
Undefined == "undefined"

stages == <<"basic", "role", "technical", "resume", "behavioral", "salary">>

\* Array.prototype.indexOf: 0-based index of the first occurrence, else -1
indexOf(arr, x) ==
  IF \E i \in 1..Len(arr) : arr[i] = x
    THEN (CHOOSE i \in 1..Len(arr) : arr[i] = x /\ \A k \in 1..(i - 1) : arr[k] # x) - 1
    ELSE -1

\* arr[i] with a 0-based index
at(arr, i) == IF i + 1 \in 1..Len(arr) THEN arr[i + 1] ELSE Undefined

\* a slip in the index: the stage after the next one
nextStage_skip(stage) ==
  LET idx == indexOf(stages, stage)
  IN  IF idx < Len(stages) - 1 THEN at(stages, idx + 2) ELSE Null

\* the sequence wraps around instead of ending
nextStage_wrap(stage) ==
  LET idx == indexOf(stages, stage)
  IN  IF idx < Len(stages) - 1 THEN at(stages, idx + 1) ELSE at(stages, 0)

nextStage(stage) ==
  LET idx == indexOf(stages, stage)
  IN  IF idx < Len(stages) - 1 THEN at(stages, idx + 1) ELSE Null

\* the prompt of a stage: its template and what the template embeds
getStageQuestion(stage, jobRole, resume) ==
  CASE stage \in {"basic", "role", "technical"} ->
         [template |-> stage, jobRole |-> jobRole, resume |-> Undefined]
    [] stage = "resume" ->
         [template |-> stage, jobRole |-> Undefined, resume |-> resume]
    [] stage \in {"behavioral", "salary"} ->
         [template |-> stage, jobRole |-> Undefined, resume |-> Undefined]
    [] OTHER -> Undefined

(***************************************************************************)
(* Inputs.                                                                 *)
(***************************************************************************)
\* the ids uuidv4() hands out, in the order it hands them out
Uuids == [i \in 1..MaxSessions |-> <<"uuid", i>>]
UuidSet == {Uuids[i] : i \in 1..MaxSessions}

\* a key every object literal inherits from Object.prototype
ProtoKey == <<"constructor", 0>>
\* no id, no object
NoId == <<"undefined", 0>>

\* request body fields: "" stands for an absent or empty (falsy) field
JobRoles == {"", "Engineer"}
ResumeTexts == {"", "cv"}
Answers == {"", "ans"}

\* completions the gateway returns (callGroq returns "" on a missing field)
EmptyText == <<>>
QuotedText == <<"k", SP, DQ, "a", QM, DQ>>
PlainText == <<"b", QM, NL, "c">>
GatewayTexts == {EmptyText, QuotedText, PlainText}
\* the completion the gateway returns when nothing unusual happens
UsualText == QuotedText

(***************************************************************************)
(* State.                                                                  *)
(***************************************************************************)
VARIABLES
  interviewSessions,  \* the own keys of the store object
  objs,               \* the session objects ever stored, by the id they were stored under
  nextUuid,           \* index of the next id uuidv4() hands out
  suspended,          \* the handlers suspended at their gateway call (a bag)
  questions,          \* by session id: the questions sent to the client so far
  out,                \* the response sent last
  calls,              \* number of gateway calls made
  odd,                \* number of gateway calls that failed or returned an unusual text
  arg,                \* the text a function of the module is applied to
  ret                 \* what the function returned for it

vars == <<interviewSessions, objs, nextUuid, suspended, questions, out, calls, odd,
         arg, ret>>

\* nothing has been returned yet
NotYet == [done |-> FALSE, value |-> <<>>]

NoBody == [error |-> TRUE]
NoResponse == [status |-> 0, body |-> NoBody]
NoPrompt == [template |-> "none"]

\* a handler: the request body, the locals, the pending gateway call
NoHandler ==
  [route |-> "none", pc |-> "idle", sessionId |-> NoId, answer |-> Undefined,
   jobRole |-> Undefined, resumeText |-> Undefined, s |-> NoId,
   prompt |-> NoPrompt, pushed |-> 0]

Init ==
  /\ interviewSessions = {}
  /\ objs = <<>>
  /\ questions = <<>>
  /\ nextUuid = 1
  /\ suspended = EmptyBag
  /\ out = NoResponse
  /\ calls = 0
  /\ odd = 0
  /\ arg = <<>>
  /\ ret = NotYet

\* interviewSessions[key]: an own property, an inherited one, or undefined
Lookup(key) ==
  IF key \in interviewSessions THEN key
  ELSE IF key = ProtoKey THEN ProtoKey
  ELSE NoId

\* the ids a client can send: an id uuidv4() hands out in this run (before or
\* after it does), or an inherited key
SessionIds == UuidSet \cup {ProtoKey}

CanCall == BagCardinality(suspended) < MaxInFlight /\ calls < MaxCalls

\* res.json(body), after res.status(status) where the code calls it
Respond(status, body) == out' = [status |-> status, body |-> body]

\* res.status(400).json(...) before any await
Reject ==
  /\ Respond(400, NoBody)
  /\ UNCHANGED <<suspended, calls>>

\* what an exception in an async handler leaves: Express 4 sends nothing,
\* Express 5 forwards the rejection to its error handler, which sends 500
ThrownResponses == {NoResponse, [status |-> 500, body |-> NoBody]}

Throw == out' \in ThrownResponses

\* await callGroq(prompt, maxTokens): the handler is suspended
callGroq(req, prompt, maxTokens) ==
  /\ CanCall
  /\ calls' = calls + 1
  /\ suspended' = suspended (+) SetToBag({[req EXCEPT !.pc = "await",
                     !.prompt = [prompt EXCEPT !.maxTokens = maxTokens]]})
  /\ UNCHANGED out

\* the gateway call of a suspended handler returns or throws: the handler resumes
Suspended(req) == BagIn(req, suspended)
Resume(req) == suspended' = suspended (-) SetToBag({req})

\* the gateway call returns the completion raw
Returns(raw) ==
  IF raw = UsualText THEN UNCHANGED odd
  ELSE odd < MaxOdd /\ odd' = odd + 1

\* the feedback prompts: the template and JSON.stringify(s.history, null, 2)
feedbackPrompt(template, history) ==
  [template |-> template, transcript |-> history, maxTokens |-> 0]

stagePrompt(stage, jobRole, resume) ==
  [template |-> "stage", question |-> getStageQuestion(stage, jobRole, resume),
   maxTokens |-> 0]

rephrasePrompt(lastQuestion) ==
  [template |-> "rephrase", lastQuestion |-> lastQuestion, maxTokens |-> 0]

(***************************************************************************)
(* POST /interview/start                                                   *)
(***************************************************************************)
\* !jobRole || !resumeText
startRejects(jobRole, resumeText) == jobRole = "" \/ resumeText = ""

StartRequest(jobRole, resumeText) ==
  LET req == [NoHandler EXCEPT !.route = "start", !.jobRole = jobRole,
                               !.resumeText = resumeText]
  IN  /\ IF startRejects(jobRole, resumeText)
           THEN /\ Reject
                /\ UNCHANGED nextUuid
           ELSE /\ nextUuid <= MaxSessions
                /\ callGroq([req EXCEPT !.sessionId = Uuids[nextUuid]],
                            stagePrompt("basic", jobRole, resumeText), 400)
                /\ nextUuid' = nextUuid + 1
      /\ UNCHANGED <<interviewSessions, objs, questions, odd, arg, ret>>

\* the completion is stored as it came, not the question extracted from it
StartResume_raw(req, raw) ==
  LET question == extractOnlyQuestion(raw)
  IN  /\ Suspended(req) /\ req.route = "start"
      /\ Resume(req) /\ Returns(raw)
      /\ objs' = [k \in (DOMAIN objs) \cup {req.sessionId} |->
                    IF k = req.sessionId
                      THEN [jobRole |-> req.jobRole, resumeText |-> req.resumeText,
                            stage |-> "basic", history |-> <<>>,
                            lastQuestion |-> raw]
                      ELSE objs[k]]
      /\ interviewSessions' = interviewSessions \cup {req.sessionId}
      /\ questions' = [k \in (DOMAIN questions) \cup {req.sessionId} |->
                         IF k = req.sessionId THEN 1 ELSE questions[k]]
      /\ Respond(200, [sessionId |-> req.sessionId, question |-> question,
                            stage |-> "basic", questionCount |-> 1,
                            maxQuestions |-> Len(stages)])
      /\ UNCHANGED <<nextUuid, calls, arg, ret>>

StartResume(req, raw) ==
  LET question == extractOnlyQuestion(raw)
  IN  /\ Suspended(req) /\ req.route = "start"
      /\ Resume(req) /\ Returns(raw)
      /\ objs' = [k \in (DOMAIN objs) \cup {req.sessionId} |->
                    IF k = req.sessionId
                      THEN [jobRole |-> req.jobRole, resumeText |-> req.resumeText,
                            stage |-> "basic", history |-> <<>>,
                            lastQuestion |-> question]
                      ELSE objs[k]]
      /\ interviewSessions' = interviewSessions \cup {req.sessionId}
      /\ questions' = [k \in (DOMAIN questions) \cup {req.sessionId} |->
                         IF k = req.sessionId THEN 1 ELSE questions[k]]
      /\ Respond(200, [sessionId |-> req.sessionId, question |-> question,
                            stage |-> "basic", questionCount |-> 1,
                            maxQuestions |-> Len(stages)])
      /\ UNCHANGED <<nextUuid, calls, arg, ret>>

(***************************************************************************)
(* POST /interview/answer                                                  *)
(***************************************************************************)
\* the history is replaced by the new entry instead of extended by it
push_replace(session, answer) ==
  [session EXCEPT !.history = <<[question |-> session.lastQuestion, answer |-> answer]>>]

\* s.history.push({ question: s.lastQuestion, answer })
push(session, answer) ==
  [session EXCEPT !.history =
     Append(@, [question |-> session.lastQuestion, answer |-> answer])]

\* the stage is left where it was
advance_stay(session) == session

\* s.stage = nextStage(s.stage)
advance(session) == [session EXCEPT !.stage = nextStage(@)]

\* !s || !answer
answerRejects(s, answer) == s = NoId \/ answer = ""

AnswerRequest(sessionId, answer) ==
  LET s   == Lookup(sessionId)
      req == [NoHandler EXCEPT !.route = "answer", !.sessionId = sessionId,
                               !.answer = answer, !.s = s]
  IN  /\ IF answerRejects(s, answer)
           THEN /\ Reject
                /\ UNCHANGED objs
         ELSE IF s = ProtoKey
           \* s.history is undefined: push throws a TypeError
           THEN /\ Throw
                /\ UNCHANGED <<objs, suspended, calls>>
         ELSE LET pushed == push(objs[s], answer)
                  n      == Len(pushed.history)
              IN  /\ IF pushed.stage = "salary"
                       THEN /\ objs' = [objs EXCEPT ![s] = pushed]
                            /\ callGroq([req EXCEPT !.pushed = n],
                                 feedbackPrompt("answer-feedback", pushed.history), 700)
                       ELSE LET moved == advance(pushed)
                            IN  /\ objs' = [objs EXCEPT ![s] = moved]
                                /\ callGroq([req EXCEPT !.pushed = n],
                                     stagePrompt(moved.stage, moved.jobRole,
                                                 moved.resumeText), 400)
      /\ UNCHANGED <<interviewSessions, nextUuid, questions, odd, arg, ret>>

AnswerResume(req, raw) ==
  LET s == req.s
  IN  /\ Suspended(req) /\ req.route = "answer"
      /\ Resume(req) /\ Returns(raw)
      /\ IF req.prompt.template = "answer-feedback"
           THEN /\ interviewSessions' = interviewSessions \ {req.sessionId}
                /\ Respond(200, [feedback |-> raw])
                /\ UNCHANGED <<objs, questions>>
           ELSE LET question == extractOnlyQuestion(raw)
                IN  /\ objs' = [objs EXCEPT ![s].lastQuestion = question]
                    /\ Respond(200, [question |-> question,
                                          stage |-> objs[s].stage,
                                          questionCount |-> Len(objs[s].history) + 1])
                    /\ questions' = [questions EXCEPT ![s] = @ + 1]
                    /\ UNCHANGED interviewSessions
      /\ UNCHANGED <<nextUuid, calls, arg, ret>>

(***************************************************************************)
(* POST /interview/clarify                                                 *)
(***************************************************************************)
\* !s || !s.lastQuestion (an inherited property has no lastQuestion)
clarifyRejects(s) == s = NoId \/ s = ProtoKey \/ objs[s].lastQuestion = <<>>

ClarifyRequest(sessionId) ==
  LET s   == Lookup(sessionId)
      req == [NoHandler EXCEPT !.route = "clarify", !.sessionId = sessionId,
                               !.s = s]
  IN  /\ IF clarifyRejects(s)
           THEN Reject
           ELSE callGroq(req, rephrasePrompt(objs[s].lastQuestion), 400)
      /\ UNCHANGED <<interviewSessions, objs, nextUuid, questions, odd, arg, ret>>

\* the session is rebuilt around the new question, and its history is lost
ClarifyResume_rebuild(req, raw) ==
  LET s        == req.s
      question == extractOnlyQuestion(raw)
  IN  /\ Suspended(req) /\ req.route = "clarify"
      /\ Resume(req) /\ Returns(raw)
      /\ objs' = [objs EXCEPT ![s] = [@ EXCEPT !.lastQuestion = question,
                                                !.history = <<>>]]
      /\ Respond(200, [question |-> question])
      /\ UNCHANGED <<interviewSessions, nextUuid, questions, calls, arg, ret>>

ClarifyResume(req, raw) ==
  LET s        == req.s
      question == extractOnlyQuestion(raw)
  IN  /\ Suspended(req) /\ req.route = "clarify"
      /\ Resume(req) /\ Returns(raw)
      /\ objs' = [objs EXCEPT ![s].lastQuestion = question]
      /\ Respond(200, [question |-> question])
      /\ UNCHANGED <<interviewSessions, nextUuid, questions, calls, arg, ret>>

(***************************************************************************)
(* POST /interview/finish                                                  *)
(***************************************************************************)
\* !s
finishRejects(s) == s = NoId

FinishRequest(sessionId) ==
  LET s   == Lookup(sessionId)
      req == [NoHandler EXCEPT !.route = "finish", !.sessionId = sessionId,
                               !.s = s]
  IN  /\ IF finishRejects(s)
           THEN Reject
         ELSE IF s = ProtoKey
           \* an inherited property has no history: the transcript is "undefined"
           THEN callGroq(req, feedbackPrompt("finish-feedback", Undefined), 700)
         ELSE callGroq(req, feedbackPrompt("finish-feedback", objs[s].history), 700)
      /\ UNCHANGED <<interviewSessions, objs, nextUuid, questions, odd, arg, ret>>

\* the store is emptied instead of the one key deleted
FinishResume_clear(req, raw) ==
  /\ Suspended(req) /\ req.route = "finish"
  /\ Resume(req) /\ Returns(raw)
  /\ interviewSessions' = {}
  /\ Respond(200, [feedback |-> raw])
  /\ UNCHANGED <<objs, nextUuid, questions, calls, arg, ret>>

\* the delete is left out
FinishResume_keep(req, raw) ==
  /\ Suspended(req) /\ req.route = "finish"
  /\ Resume(req) /\ Returns(raw)
  /\ Respond(200, [feedback |-> raw])
  /\ UNCHANGED <<interviewSessions, objs, nextUuid, questions, calls, arg, ret>>

FinishResume(req, raw) ==
  /\ Suspended(req) /\ req.route = "finish"
  /\ Resume(req) /\ Returns(raw)
  \* delete of a key that is no own property removes nothing
  /\ interviewSessions' = interviewSessions \ {req.sessionId}
  /\ Respond(200, [feedback |-> raw])
  /\ UNCHANGED <<objs, nextUuid, questions, calls, arg, ret>>

(***************************************************************************)
(* The gateway call fails (fetch rejects, or the body is not JSON):        *)
(* callGroq throws into the handler, which has no try/catch around the     *)
(* call (every route but /career-ai).                                      *)
(***************************************************************************)
\* the handler cleans up after the failure: it deletes its session
GatewayFail_drop(req) ==
  /\ Suspended(req) /\ req.route # "career-ai"
  /\ Resume(req)
  /\ odd < MaxOdd /\ odd' = odd + 1
  /\ Throw
  /\ interviewSessions' = interviewSessions \ {req.sessionId}
  /\ UNCHANGED <<objs, nextUuid, questions, calls, arg, ret>>

GatewayFail(req) ==
  /\ Suspended(req) /\ req.route # "career-ai"
  /\ Resume(req)
  /\ odd < MaxOdd /\ odd' = odd + 1
  /\ Throw
  /\ UNCHANGED <<interviewSessions, objs, nextUuid, questions, calls, arg, ret>>

Handlers == BagToSet(suspended)

Next ==
  \/ \E j \in JobRoles, r \in ResumeTexts : StartRequest(j, r)
  \/ \E req \in Handlers, t \in GatewayTexts : StartResume(req, t)
  \/ \E id \in SessionIds, a \in Answers : AnswerRequest(id, a)
  \/ \E req \in Handlers, t \in GatewayTexts : AnswerResume(req, t)
  \/ \E id \in SessionIds : ClarifyRequest(id)
  \/ \E req \in Handlers, t \in GatewayTexts : ClarifyResume(req, t)
  \/ \E id \in SessionIds : FinishRequest(id)
  \/ \E req \in Handlers, t \in GatewayTexts : FinishResume(req, t)
  \/ \E req \in Handlers : GatewayFail(req)

Spec == Init /\ [][Next]_vars

(***************************************************************************)
(* The question extractor on its own: extractOnlyQuestion applied to every *)
(* text of up to MaxLen characters.                                        *)
(***************************************************************************)
\* the characters the patterns of extractOnlyQuestion tell apart, and a letter
Chars == {DQ, LDQ, RDQ, NL, SP, QM, "a"}
Texts == UNION {[1..n -> Chars] : n \in 0..MaxLen}

InitExtract ==
  /\ interviewSessions = {}
  /\ objs = <<>>
  /\ questions = <<>>
  /\ nextUuid = 1
  /\ suspended = EmptyBag
  /\ out = NoResponse
  /\ calls = 0
  /\ odd = 0
  /\ arg \in Texts
  /\ ret = NotYet

\* extractOnlyQuestion(text) is called and returns
Extract ==
  /\ ~ret.done
  /\ ret' = [done |-> TRUE, value |-> extractOnlyQuestion(arg)]
  /\ UNCHANGED <<interviewSessions, objs, nextUuid, suspended, questions, out,
                 calls, odd, arg>>

NextExtract == Extract

SpecExtract == InitExtract /\ [][NextExtract]_vars

(***************************************************************************)
(* JSON in free text (POST /suggest, POST /career-ai).  More characters:   *)
(* BT is the backtick, LB and RB the braces.                               *)
(***************************************************************************)
BT == "bt"
LB == "{"
RB == "}"
COLON == ":"
COMMA == ","
DIGIT == "1"

Fence == <<BT, BT, BT>>
FenceJson == <<BT, BT, BT, "j", "s", "o", "n">>

StartsWith(t, prefix) ==
  Len(t) >= Len(prefix) /\ SubSeq(t, 1, Len(prefix)) = prefix

\* raw.replace(/```json|```/g, "")
RECURSIVE stripFences(_)
stripFences(t) ==
  IF t = <<>> THEN <<>>
  ELSE IF StartsWith(t, FenceJson) THEN stripFences(SubSeq(t, Len(FenceJson) + 1, Len(t)))
  ELSE IF StartsWith(t, Fence) THEN stripFences(SubSeq(t, Len(Fence) + 1, Len(t)))
  ELSE <<Head(t)>> \o stripFences(Tail(t))

\* String.prototype.lastIndexOf: 0-based index of the last occurrence, else -1
lastIndexOf(arr, x) ==
  IF \E i \in 1..Len(arr) : arr[i] = x
    THEN (CHOOSE i \in 1..Len(arr) : arr[i] = x /\ \A k \in (i + 1)..Len(arr) : arr[k] # x) - 1
    ELSE -1

\* how String.prototype.slice reads an index: a negative one counts from the
\* end, and every index is brought into 0..length
sliceIndex(t, i) ==
  IF i < 0 THEN (IF Len(t) + i < 0 THEN 0 ELSE Len(t) + i)
  ELSE IF i > Len(t) THEN Len(t) ELSE i

\* String.prototype.slice(start, end): 0-based, end exclusive
slice(t, start, end) ==
  LET from == sliceIndex(t, start)
      to   == sliceIndex(t, end)
  IN  SubSeq(t, from + 1, to)

\* JSON.parse, for texts of the characters above.  A value is an object, a
\* string or a number; white space is the space and the line feed; a string
\* holds no line feed (and the characters have no backslash among them).
JsonFail == [ok |-> FALSE, next |-> 0, value |-> [type |-> "none"]]
JsonOk(next, value) == [ok |-> TRUE, next |-> next, value |-> value]

IsJsonSpace(c) == c \in {SP, NL}

\* the first position from i on that holds no white space (Len(t) + 1 if none)
RECURSIVE skipSpace(_, _)
skipSpace(t, i) ==
  IF i <= Len(t) /\ IsJsonSpace(t[i]) THEN skipSpace(t, i + 1) ELSE i

\* t[i] is the opening quote of a string
parseString(t, i) ==
  IF \E k \in (i + 1)..Len(t) : t[k] = DQ
    THEN LET k == CHOOSE m \in (i + 1)..Len(t) :
                    t[m] = DQ /\ \A n \in (i + 1)..(m - 1) : t[n] # DQ
         IN  IF \E n \in (i + 1)..(k - 1) : t[n] = NL
               THEN JsonFail
               ELSE JsonOk(k + 1, [type |-> "string", chars |-> SubSeq(t, i + 1, k - 1)])
    ELSE JsonFail

\* t[i] is the first digit of a number
parseNumber(t, i) ==
  LET k == CHOOSE m \in i..Len(t) :
             /\ \A n \in i..m : t[n] = DIGIT
             /\ (m = Len(t) \/ t[m + 1] # DIGIT)
  IN  JsonOk(k + 1, [type |-> "number", digits |-> SubSeq(t, i, k)])

RECURSIVE parseValue(_, _)
RECURSIVE parseMembers(_, _, _, _)

\* a value, after white space, from position i on
parseValue(t, i) ==
  LET j == skipSpace(t, i)
  IN  IF j > Len(t) THEN JsonFail
      ELSE IF t[j] = LB THEN parseMembers(t, skipSpace(t, j + 1), <<>>, TRUE)
      ELSE IF t[j] = DQ THEN parseString(t, j)
      ELSE IF t[j] = DIGIT THEN parseNumber(t, j)
      ELSE JsonFail

\* the members of an object from position i on (after '{' or ','), up to its
\* '}'; of two members with one key the later one stays
parseMembers(t, i, members, first) ==
  IF i > Len(t) THEN JsonFail
  ELSE IF first /\ t[i] = RB THEN JsonOk(i + 1, [type |-> "object", members |-> members])
  ELSE IF t[i] # DQ THEN JsonFail
  ELSE LET key == parseString(t, i)
       IN  IF ~key.ok THEN JsonFail
           ELSE LET c == skipSpace(t, key.next)
                IN  IF c > Len(t) \/ t[c] # COLON THEN JsonFail
                    ELSE LET v == parseValue(t, c + 1)
                         IN  IF ~v.ok THEN JsonFail
                             ELSE LET d   == skipSpace(t, v.next)
                                      all == (key.value.chars :> v.value) @@ members
                                  IN  IF d > Len(t) THEN JsonFail
                                      ELSE IF t[d] = RB
                                        THEN JsonOk(d + 1, [type |-> "object", members |-> all])
                                      ELSE IF t[d] = COMMA
                                        THEN parseMembers(t, skipSpace(t, d + 1), all, FALSE)
                                      ELSE JsonFail

\* JSON.parse(t): one value, white space around it, nothing else
JSONparse(t) ==
  LET v == parseValue(t, 1)
  IN  IF v.ok /\ skipSpace(t, v.next) > Len(t) THEN v ELSE JsonFail

\* raw.replace(/```json|```/g, "").trim()
cleanOf(raw) == trim(stripFences(raw))

\* clean.slice(clean.indexOf("{"), clean.lastIndexOf("}") + 1)
jsonTextOf(clean) == slice(clean, indexOf(clean, LB), lastIndexOf(clean, RB) + 1)

(***************************************************************************)
(* Inputs of the two routes.                                               *)
(***************************************************************************)
Roles == {"", "Dev"}
Types == {Undefined, "skills-to-career", "role-to-skills"}
CareerInputs == {Undefined, "Dev"}
\* req.body.skills: absent, a string, an array
NoSkills == [kind |-> "undefined", items |-> <<>>]
SkillsValues ==
  {NoSkills, [kind |-> "string", items |-> <<>>],
   [kind |-> "array", items |-> <<>>], [kind |-> "array", items |-> <<"js", "sql">>]}

\* Array.prototype.join(", ")
RECURSIVE join(_)
join(items) ==
  IF items = <<>> THEN <<>>
  ELSE IF Len(items) = 1 THEN items
  ELSE <<Head(items), ", ">> \o join(Tail(items))

\* completions of the gateway
JsonPlain == <<LB, DQ, "k", DQ, COLON, DIGIT, RB>>
JsonFenced == FenceJson \o <<NL>> \o JsonPlain \o <<NL>> \o Fence
JsonChatty == <<"o", "k", COLON, SP, LB, DQ, "k", DQ, COLON, SP, LB, RB, RB, SP, "o", "k">>
JsonNoBraces == <<"n", "o">>
JsonCutOff == <<LB, DQ, "k", DQ, COLON, DIGIT>>
JsonCloseOnly == <<DIGIT, RB>>
JsonReversed == <<RB, SP, LB>>
JsonBareKey == <<LB, "k", COLON, DIGIT, RB>>
JsonTwo == <<LB, RB, SP, LB, RB>>
JsonTexts ==
  {EmptyText, JsonPlain, JsonFenced, JsonChatty, JsonNoBraces, JsonCutOff,
   JsonCloseOnly, JsonReversed, JsonBareKey, JsonTwo}

suggestPrompt(role) == [template |-> "suggest", role |-> role, maxTokens |-> 0]

careerPrompt(type, input, skills) ==
  IF type = "skills-to-career"
    THEN [template |-> "skills-to-career", skills |-> join(skills.items), maxTokens |-> 0]
    ELSE [template |-> "role", input |-> input, maxTokens |-> 0]

(***************************************************************************)
(* POST /suggest                                                           *)
(***************************************************************************)
\* !role
suggestRejects(role) == role = ""

SuggestRequest(role) ==
  LET req == [NoHandler EXCEPT !.route = "suggest"]
  IN  /\ IF suggestRejects(role)
           THEN Reject
           ELSE callGroq(req, suggestPrompt(role), 400)
      /\ UNCHANGED <<interviewSessions, objs, nextUuid, questions, odd, arg, ret>>

\* JSON.parse is called outside the try block
SuggestResume_noCatch(req, raw) ==
  LET json == JSONparse(jsonTextOf(cleanOf(raw)))
  IN  /\ Suspended(req) /\ req.route = "suggest"
      /\ Resume(req)
      /\ IF json.ok THEN Respond(200, json.value) ELSE Throw
      /\ UNCHANGED <<interviewSessions, objs, nextUuid, questions, calls, odd, arg, ret>>

SuggestResume(req, raw) ==
  LET json == JSONparse(jsonTextOf(cleanOf(raw)))
  IN  /\ Suspended(req) /\ req.route = "suggest"
      /\ Resume(req)
      /\ IF json.ok THEN Respond(200, json.value) ELSE Respond(500, NoBody)
      /\ UNCHANGED <<interviewSessions, objs, nextUuid, questions, calls, odd, arg, ret>>

(***************************************************************************)
(* POST /career-ai: the whole handler is inside one try block.             *)
(***************************************************************************)
\* skills.join throws a TypeError unless skills is an array
joinThrows(skills) == skills.kind # "array"

CareerRequest(type, input, skills) ==
  LET req == [NoHandler EXCEPT !.route = "career-ai"]
  IN  /\ IF type = "skills-to-career" /\ joinThrows(skills)
           THEN /\ Respond(500, NoBody)
                /\ UNCHANGED <<suspended, calls>>
           ELSE callGroq(req, careerPrompt(type, input, skills), 500)
      /\ UNCHANGED <<interviewSessions, objs, nextUuid, questions, odd, arg, ret>>

CareerResume(req, raw) ==
  LET json == JSONparse(jsonTextOf(cleanOf(raw)))
  IN  /\ Suspended(req) /\ req.route = "career-ai"
      /\ Resume(req)
      /\ IF json.ok THEN Respond(200, json.value) ELSE Respond(500, NoBody)
      /\ UNCHANGED <<interviewSessions, objs, nextUuid, questions, calls, odd, arg, ret>>

\* the gateway call fails: callGroq throws into the try block
CareerFail(req) ==
  /\ Suspended(req) /\ req.route = "career-ai"
  /\ Resume(req)
  /\ odd < MaxOdd /\ odd' = odd + 1
  /\ Respond(500, NoBody)
  /\ UNCHANGED <<interviewSessions, objs, nextUuid, questions, calls, arg, ret>>

NextAdvice ==
  \/ \E role \in Roles : SuggestRequest(role)
  \/ \E req \in Handlers, t \in JsonTexts : SuggestResume(req, t)
  \/ \E type \in Types, input \in CareerInputs, skills \in SkillsValues :
       CareerRequest(type, input, skills)
  \/ \E req \in Handlers, t \in JsonTexts : CareerResume(req, t)
  \/ \E req \in Handlers : CareerFail(req)
  \/ \E req \in Handlers : GatewayFail(req)

SpecAdvice == Init /\ [][NextAdvice]_vars

(***************************************************************************)
(* Properties.                                                             *)
(***************************************************************************)
StageSet == {stages[i] : i \in 1..Len(stages)}

\* b is the stage that follows a in the sequence
Follows(a, b) == \E i \in 1..(Len(stages) - 1) : stages[i] = a /\ stages[i + 1] = b

\* the handlers of answer requests suspended on the session object id
AnswersSuspendedOn(id) == {r \in Handlers : r.route = "answer" /\ r.s = id}

\* C1: under every interleaving of requests, a session's stage is always one
\* of the six stages, and every change of it goes from a stage to the stage
\* that follows it in the sequence (never backward, never over a stage).
C1_StageMovesToNext ==
  [][/\ \A id \in DOMAIN objs' : objs'[id].stage \in StageSet
     /\ \A id \in DOMAIN objs :
          objs'[id].stage # objs[id].stage => Follows(objs[id].stage, objs'[id].stage)]_vars

\* a session has reached the last stage while two of its answers, accepted
\* one after the other, still await the gateway
C1_Witness ==
  \E id \in DOMAIN objs :
    /\ objs[id].stage = "salary"
    /\ \E r1, r2 \in AnswersSuspendedOn(id) : r1.pushed # r2.pushed

IsQuestionBody(body) == DOMAIN body = {"question", "stage", "questionCount"}
IsFeedbackBody(body) == DOMAIN body = {"feedback"}

\* C2: the n-th answer accepted on a session, when no further answer was
\* accepted before its gateway call returned, gets for n = 1..5 a question
\* with the stage role, technical, resume, behavioral, salary, and for n = 6
\* the feedback, with the session removed; an answer sent after that is
\* answered with 400.
C2_SixAnswers ==
  [][/\ \A req \in Handlers, raw \in GatewayTexts :
          (AnswerResume(req, raw) /\ Len(objs[req.s].history) = req.pushed) =>
             /\ req.pushed \in 1..(Len(stages) - 1) =>
                  /\ out'.status = 200
                  /\ IsQuestionBody(out'.body)
                  /\ out'.body.stage = stages[req.pushed + 1]
             /\ req.pushed = Len(stages) =>
                  /\ out'.status = 200
                  /\ IsFeedbackBody(out'.body)
                  /\ req.sessionId \notin interviewSessions'
     /\ \A id \in DOMAIN objs, a \in Answers :
          (/\ AnswerRequest(id, a)
           /\ Len(objs[id].history) = Len(stages)
           /\ id \notin interviewSessions) => out'.status = 400]_vars

\* the sixth answer of a session, sent like the five before it after the
\* response to the one before, has been answered with the feedback
C2_Witness ==
  \E id \in DOMAIN objs :
    /\ Len(objs[id].history) = Len(stages)
    /\ questions[id] = Len(stages)
    /\ id \notin interviewSessions
    /\ suspended = EmptyBag
    /\ out.status = 200 /\ IsFeedbackBody(out.body)

\* the sessions that were stored and have been removed
Removed == (DOMAIN objs) \ interviewSessions

\* the suspended call of the handler is the feedback call of the salary branch
OnSalaryBranch(req) == req.route = "answer" /\ req.prompt.template = "answer-feedback"

\* C3: a session id is in the store only after its start has completed; a
\* finish, and an answer accepted on the salary stage, respond with feedback
\* and leave the id out of the store; nothing else removes it; once removed
\* it stays out, and every later answer, clarify or finish request with that
\* id is answered with 400.
C3_GoneAfterFeedback ==
  [][/\ interviewSessions' \subseteq DOMAIN objs'
     /\ Removed \subseteq Removed'
     /\ \A req \in Handlers, raw \in GatewayTexts :
          (FinishResume(req, raw) \/ (AnswerResume(req, raw) /\ OnSalaryBranch(req))) =>
             /\ out'.status = 200 /\ IsFeedbackBody(out'.body)
             /\ req.sessionId \notin interviewSessions'
     /\ interviewSessions' # interviewSessions =>
          \/ out'.status = 200 /\ IsFeedbackBody(out'.body)
          \/ interviewSessions \subseteq interviewSessions'
     /\ \A id \in Removed, a \in Answers :
          (AnswerRequest(id, a) \/ ClarifyRequest(id) \/ FinishRequest(id)) =>
             /\ out'.status = 400
             /\ UNCHANGED <<suspended, calls>>]_vars

\* a session was finished before its last stage, and a request was answered
\* with 400 since
C3_Witness ==
  \E id \in Removed :
    /\ objs[id].stage = "role"
    /\ out.status = 400

Entry(session, answer) == [question |-> session.lastQuestion, answer |-> answer]

\* C4: a session starts with an empty history; a step changes the history of a
\* session only if it is the acceptance of an answer request for that session,
\* and every such step appends the one entry (lastQuestion, answer) to it,
\* leaving the entries before it as they were.
C4_HistoryAppendOnly ==
  [][/\ \A id \in (DOMAIN objs') \ (DOMAIN objs) : objs'[id].history = <<>>
     /\ \A id \in DOMAIN objs :
          objs'[id].history # objs[id].history =>
            \E a \in Answers \ {""} :
              /\ id \in interviewSessions
              /\ AnswerRequest(id, a)
     /\ \A id \in interviewSessions, a \in Answers \ {""} :
          AnswerRequest(id, a) =>
            objs'[id].history = Append(objs[id].history, Entry(objs[id], a))]_vars

\* two answers were accepted on a session, to two different questions
C4_Witness ==
  \E id \in DOMAIN objs :
    /\ Len(objs[id].history) = 2
    /\ objs[id].history[1].question # objs[id].history[2].question

\* C5: in every state the history of a session is no longer than the number
\* of questions sent to the client for it (the one of start and those of the
\* answer responses).
C5_HistoryWithinQuestions ==
  \A id \in DOMAIN objs : Len(objs[id].history) <= questions[id]

IsStartBody(body) ==
  DOMAIN body = {"sessionId", "question", "stage", "questionCount", "maxQuestions"}

\* what the completion of a start with the id `id` stores and responds
StartStores(id) ==
  /\ id \notin interviewSessions /\ id \notin DOMAIN objs
  /\ interviewSessions' = interviewSessions \cup {id}
  /\ DOMAIN objs' = (DOMAIN objs) \cup {id}
  /\ \A k \in DOMAIN objs : objs'[k] = objs[k]
  /\ out'.status = 200 /\ IsStartBody(out'.body)
  /\ out'.body.sessionId = id
  /\ out'.body.stage = "basic"
  /\ out'.body.questionCount = 1
  /\ objs'[id].stage = "basic"
  /\ objs'[id].history = <<>>
  /\ objs'[id].lastQuestion = out'.body.question

\* a request of the route with the id `id` is not rejected
AnswerAccepts(id) == Lookup(id) = id /\ ~answerRejects(Lookup(id), "ans")
ClarifyAccepts(id) == Lookup(id) = id /\ ~clarifyRejects(Lookup(id))
FinishAccepts(id) == Lookup(id) = id /\ ~finishRejects(Lookup(id))

\* C6 as stated: a start whose gateway call returns stores one new session
\* under a fresh id, with stage basic, an empty history and the returned
\* question as lastQuestion, responds with the id, stage basic and
\* questionCount 1, and the session is then accepted by answer, clarify and
\* finish.
C6_StartAcceptedByAll ==
  [][\A req \in Handlers, raw \in GatewayTexts :
       StartResume(req, raw) =>
         /\ StartStores(req.sessionId)
         /\ AnswerAccepts(req.sessionId)'
         /\ ClarifyAccepts(req.sessionId)'
         /\ FinishAccepts(req.sessionId)']_vars

\* C6 as amended: the same, with the session accepted by answer and finish,
\* and by clarify exactly when the question returned is not empty.
C6_StartStoresSession ==
  [][\A req \in Handlers, raw \in GatewayTexts :
       StartResume(req, raw) =>
         /\ StartStores(req.sessionId)
         /\ AnswerAccepts(req.sessionId)'
         /\ ClarifyAccepts(req.sessionId)' <=> (out'.body.question # <<>>)
         /\ FinishAccepts(req.sessionId)']_vars

\* a second session was just started next to the first, and the question
\* returned for it is empty
C6_Witness ==
  /\ out.status = 200 /\ IsStartBody(out.body)
  /\ out.body.sessionId = Uuids[2]
  /\ out.body.question = <<>>
  /\ interviewSessions = {Uuids[1], Uuids[2]}
  /\ objs[Uuids[2]].history = <<>>
  /\ objs[Uuids[2]].lastQuestion = <<>>

\* the step answers with 400, makes no gateway call and leaves the store as it was
Rejected ==
  /\ out'.status = 400
  /\ UNCHANGED <<interviewSessions, objs, suspended, calls>>

\* C7: a request that fails its precondition (start without jobRole or
\* resumeText, answer with an id that is no key of the store or without an
\* answer, clarify with such an id or on a session whose lastQuestion is
\* empty, finish with such an id) is answered with 400, makes no gateway call
\* and leaves the store unchanged.
C7_FailedPreconditionRejected ==
  [][/\ \A j \in JobRoles, r \in ResumeTexts :
          (StartRequest(j, r) /\ (j = "" \/ r = "")) => Rejected
     /\ \A id \in SessionIds, a \in Answers :
          (AnswerRequest(id, a) /\ (id \notin interviewSessions \/ a = "")) => Rejected
     /\ \A id \in SessionIds :
          (ClarifyRequest(id) /\ id \notin interviewSessions) => Rejected
     /\ \A id \in interviewSessions :
          (ClarifyRequest(id) /\ objs[id].lastQuestion = <<>>) => Rejected
     /\ \A id \in SessionIds :
          (FinishRequest(id) /\ id \notin interviewSessions) => Rejected]_vars

IsClarifyBody(body) == DOMAIN body = {"question"}

\* every field of the session object but lastQuestion is as it was
OnlyLastQuestionChanges(id) ==
  objs'[id] = [objs[id] EXCEPT !.lastQuestion = objs'[id].lastQuestion]

\* C8: the two steps of a clarify request (its arrival, the return of its
\* gateway call) neither add nor remove a session, leave every other session
\* object as it was, and change of the request's own session nothing but
\* lastQuestion: stage, history, jobRole and resumeText stay.
C8_ClarifyOnlyLastQuestion ==
  [][/\ \A id \in SessionIds :
          ClarifyRequest(id) => UNCHANGED <<interviewSessions, objs>>
     /\ \A req \in Handlers, raw \in GatewayTexts :
          ClarifyResume(req, raw) =>
            /\ UNCHANGED interviewSessions
            /\ DOMAIN objs' = DOMAIN objs
            /\ OnlyLastQuestionChanges(req.s)
            /\ \A k \in (DOMAIN objs) \ {req.s} : objs'[k] = objs[k]]_vars

\* a clarify has just replaced the question of a session that has a history
C8_Witness ==
  /\ out.status = 200 /\ IsClarifyBody(out.body)
  /\ \E id \in interviewSessions :
       /\ objs[id].lastQuestion = out.body.question
       /\ Len(objs[id].history) = 1
       /\ objs[id].history[1].question # out.body.question
       /\ out.body.question # <<>>

\* the store entry and the object of the session id are as they were
SessionUntouched(id) ==
  /\ (id \in interviewSessions') <=> (id \in interviewSessions)
  /\ (id \in DOMAIN objs') <=> (id \in DOMAIN objs)
  /\ id \in DOMAIN objs => objs'[id] = objs[id]

\* the step is a step of a request that names the id: its arrival, or the
\* return or failure of its gateway call (a start names the id it generated)
StepOf(id) ==
  \/ \E a \in Answers : AnswerRequest(id, a)
  \/ ClarifyRequest(id)
  \/ FinishRequest(id)
  \/ \E req \in Handlers :
       /\ req.sessionId = id
       /\ \/ GatewayFail(req)
          \/ \E raw \in GatewayTexts :
               \/ StartResume(req, raw)
               \/ AnswerResume(req, raw)
               \/ ClarifyResume(req, raw)
               \/ FinishResume(req, raw)

\* C9: a step of a request for one session id leaves the store entry, the
\* stage, the history and the lastQuestion of every other session as they
\* were; the arrival of a start request changes no session at all.
C9_OtherSessionsUntouched ==
  [][/\ \A a \in SessionIds :
          StepOf(a) => \A b \in UuidSet \ {a} : SessionUntouched(b)
     /\ \A j \in JobRoles, r \in ResumeTexts :
          StartRequest(j, r) => \A b \in UuidSet : SessionUntouched(b)]_vars

\* one session was finished while the other, started before it, has moved on
\* by one answer and is still in the store
C9_Witness ==
  /\ Uuids[2] \in Removed
  /\ Uuids[1] \in interviewSessions
  /\ objs[Uuids[1]].stage = "role"
  /\ objs[Uuids[2]].stage = "basic"

\* the stage the claim names after each stage, null after the last
StageAfter(stage) ==
  CASE stage = "basic" -> "role"
    [] stage = "role" -> "technical"
    [] stage = "technical" -> "resume"
    [] stage = "resume" -> "behavioral"
    [] stage = "behavioral" -> "salary"
    [] stage = "salary" -> Null

\* C10: nextStage maps basic, role, technical, resume and behavioral to the
\* stage that follows, and salary to null: on each of the six stages, and on
\* the stage every session object holds.
C10_NextStageTable ==
  /\ \A i \in 1..Len(stages) : nextStage(stages[i]) = StageAfter(stages[i])
  /\ \A id \in DOMAIN objs : nextStage(objs[id].stage) = StageAfter(objs[id].stage)

\* a session stands on the last stage, where nextStage has no stage to give
C10_Witness ==
  \E id \in interviewSessions :
    /\ objs[id].stage = "salary"
    /\ Len(objs[id].history) = Len(stages) - 1
    /\ nextStage(objs[id].stage) = Null

\* the gateway call of the handler returns and the handler responds with feedback
FeedbackStep(req, raw) ==
  FinishResume(req, raw) \/ (AnswerResume(req, raw) /\ OnSalaryBranch(req))

\* C15: for every session id at most one response carries feedback, whatever
\* the interleaving of answer and finish requests: a response with feedback
\* removes the session from the store, so none is produced for a session that
\* an earlier one has removed.
C15_OneFeedback ==
  [][\A req \in Handlers, raw \in GatewayTexts :
       (FeedbackStep(req, raw) /\ req.sessionId \in UuidSet) =>
          req.sessionId \notin Removed]_vars

\* C16: a step takes a session out of the store only if it is the return of
\* the gateway call of a finish or of a salary-stage answer for that session,
\* and puts one in only if it is the return of the gateway call of a start;
\* the failure of a gateway call changes nothing in the store: a start whose
\* call fails creates no session, a finish or salary-stage answer whose call
\* fails leaves the session in it.
C16_RemovedOnlyOnReturn ==
  [][/\ interviewSessions \ interviewSessions' # {} =>
          \E req \in Handlers, raw \in GatewayTexts :
            /\ FeedbackStep(req, raw)
            /\ interviewSessions \ interviewSessions' = {req.sessionId}
     /\ interviewSessions' \ interviewSessions # {} =>
          \E req \in Handlers, raw \in GatewayTexts : StartResume(req, raw)
     /\ \A req \in Handlers :
          GatewayFail(req) =>
            /\ UNCHANGED interviewSessions
            /\ DOMAIN objs' = DOMAIN objs
            /\ req.route = "start" => req.sessionId \notin DOMAIN objs']_vars

\* the gateway call of the sixth answer of a session, accepted on the salary
\* stage, has failed, and the session is still in the store
C16_Witness ==
  \E id \in interviewSessions :
    /\ objs[id].stage = "salary"
    /\ Len(objs[id].history) = Len(stages)
    /\ suspended = EmptyBag
    /\ odd = 1
    /\ out \in ThrownResponses

\* C17: when the gateway call of an answer request fails, with no other
\* answer accepted on the session since the request, the session has the
\* history and the stage it had before the request.
C17_FailedAnswerRestores ==
  [][\A req \in Handlers :
       (/\ GatewayFail(req)
        /\ req.route = "answer"
        /\ Len(objs[req.s].history) = req.pushed) =>
          /\ Len(objs'[req.s].history) = req.pushed - 1
          /\ IF OnSalaryBranch(req)
               THEN objs'[req.s].stage = "salary"
               ELSE Follows(objs'[req.s].stage, req.prompt.question.template)]_vars

\* C18: every answer response that carries a question reports the stage
\* whose prompt was sent to the gateway for that question, and the session is
\* in the store when the response is sent.
C18_StageOfPrompt ==
  [][\A req \in Handlers, raw \in GatewayTexts :
       (AnswerResume(req, raw) /\ ~OnSalaryBranch(req)) =>
          /\ out'.body.stage = req.prompt.question.template
          /\ req.sessionId \in interviewSessions']_vars

\* the handlers suspended on the session object id
SuspendedOn(id) == {r \in Handlers : r.s = id}

\* C19, where the state tells which prompt the lastQuestion comes from: a
\* session for which only the question of start has been sent holds that
\* question or a rephrase of it, generated from the prompt of basic; when it
\* is in the store and no request for it is in flight, its stage is basic.
C19_LastQuestionOfStage ==
  \A id \in interviewSessions :
    (SuspendedOn(id) = {} /\ questions[id] = 1) => objs[id].stage = "basic"

\* C20: the questionCount of every answer response that carries a question is
\* the 1-based position of the stage it reports, and so at most 6.
C20_CountIsStagePosition ==
  [][\A req \in Handlers, raw \in GatewayTexts :
       (AnswerResume(req, raw) /\ ~OnSalaryBranch(req)) =>
          /\ out'.body.questionCount = indexOf(stages, out'.body.stage) + 1
          /\ out'.body.questionCount <= Len(stages)]_vars

(***************************************************************************)
(* Properties of the question extractor (SpecExtract).                     *)
(***************************************************************************)
HasQM(t) == \E i \in 1..Len(t) : t[i] = QM
HasLineBreak(t) == \E i \in 1..Len(t) : t[i] = NL

\* C11: extractOnlyQuestion returns for every text, and for every text that
\* contains a '?' what it returns has no line break in it.
C11_NoLineBreak ==
  (ret.done /\ HasQM(arg)) => ~HasLineBreak(ret.value)

\* the substrings the claim speaks of: enclosed in straight or curly double
\* quotes and ending in '?', as pairs <<i, j>> of the position of the opening
\* quote and of the '?'
enclosedQuestions(t) ==
  {p \in (1..Len(t)) \X (1..Len(t)) :
     /\ t[p[1]] \in {DQ, LDQ}
     /\ p[2] > p[1]
     /\ t[p[2]] = QM
     /\ p[2] + 1 <= Len(t)
     /\ t[p[2] + 1] \in {DQ, RDQ}}

\* the first of them, and of those that open at one quote the shortest
enclosedQuestion(t) ==
  LET ms == enclosedQuestions(t)
      p  == CHOOSE q \in ms :
              \A r \in ms : q[1] < r[1] \/ (q[1] = r[1] /\ q[2] <= r[2])
  IN  SubSeq(t, p[1] + 1, p[2])

\* the three tiers as the claim words them
Tiered(t) ==
  IF t = <<>> THEN <<>>
  ELSE IF enclosedQuestions(t) # {} THEN trim(enclosedQuestion(t))
  ELSE IF HasQM(t) THEN trim(upToFirstQM(t))
  ELSE trim(firstLine(t))

\* C12: for every text, extractOnlyQuestion returns the empty string for the
\* empty text; else the substring enclosed in double quotes that ends in '?',
\* trimmed, if there is one; else the text up to and including its first '?',
\* trimmed, if there is a '?'; else the first line, trimmed.
C12_ThreeTiers ==
  ret.done => ret.value = Tiered(arg)

(***************************************************************************)
(* Properties of /suggest and /career-ai (SpecAdvice).                     *)
(***************************************************************************)
\* the text holds a '{' and, somewhere after it, a '}'
HasBracePair(t) ==
  \E i, j \in 1..Len(t) : i < j /\ t[i] = LB /\ t[j] = RB

\* of such a text, the span from its first '{' to its last '}'
BraceSpan(t) ==
  LET i == CHOOSE k \in 1..Len(t) : t[k] = LB /\ \A m \in 1..(k - 1) : t[m] # LB
      j == CHOOSE k \in 1..Len(t) : t[k] = RB /\ \A m \in (k + 1)..Len(t) : t[m] # RB
  IN  SubSeq(t, i, j)

\* the gateway output, its code fences taken out, holds a span that is valid JSON
HasValidSpan(raw) ==
  HasBracePair(raw) /\ JSONparse(BraceSpan(cleanOf(raw))).ok

\* C13: when the gateway call of a /suggest or /career-ai request returns,
\* the response is 200 with the object parsed from the span between the first
\* '{' and the last '}' of the output (its code fences taken out) if there is
\* such a span and it is valid JSON, and 500 in every other case (no brace
\* pair, the empty completion, a span that is not valid JSON): the parse
\* error never leaves the handler.
C13_ParseFailureIs500 ==
  [][\A req \in Handlers, raw \in JsonTexts :
       (SuggestResume(req, raw) \/ CareerResume(req, raw)) =>
          IF HasValidSpan(raw)
            THEN out' = [status |-> 200,
                         body |-> JSONparse(BraceSpan(cleanOf(raw))).value]
            ELSE out'.status = 500]_vars

\* a completion with words around its JSON was answered with the object
\* parsed from the span (an object whose member k is an empty object)
C13_Witness ==
  /\ out.status = 200
  /\ "type" \in DOMAIN out.body
  /\ out.body.type = "object"
  /\ DOMAIN out.body.members = {<<"k">>}
  /\ out.body.members[<<"k">>] = [type |-> "object", members |-> <<>>]

\* C14: a /career-ai request without the field its type needs is answered
\* with 500: without skills when type is skills-to-career (answered at once),
\* without input for any other type (answered when its gateway call returns).
C14_MissingFieldIs500 ==
  [][/\ \A type \in Types, input \in CareerInputs :
          (CareerRequest(type, input, NoSkills) /\ type = "skills-to-career") =>
             out'.status = 500
     /\ \A req \in Handlers, raw \in JsonTexts :
          (/\ CareerResume(req, raw)
           /\ req.prompt.template = "role"
           /\ req.prompt.input = Undefined) => out'.status = 500]_vars

====
